---- MODULE Spec2Model ----
(***************************************************************************)
(* LeArm button-press automation (auto_control.py) and the plain servo     *)
(* controller (hiwonder_control.py).                                       *)
(*                                                                         *)
(* A Python dict is an ordered sequence of entries [k |-> key, v |-> val]  *)
(* (insertion order, unique keys).  A key is either an int or a str; the   *)
(* two never compare equal in Python (1 != '1'), so a key is a record      *)
(* [t |-> "int" | "str", n |-> number].  json keeps only str keys.         *)
(* A command line typed at a prompt is a sequence of one-character strings.*)
(***************************************************************************)
EXTENDS Integers, Sequences, FiniteSets, TLC

\* ------------------------------------------------------------------ bounds
MaxTeach == 2           \* teach and teach-dial commands given plus "+"/"-" inputs
                        \* that move a servo, over all processes
MaxRepeat == 2          \* largest repeat count given to run_sequence
MaxDrop == 1            \* the latest write at which the device starts to fail
AngleOver == 2          \* how far beyond 0..180 the controller's angle inputs go
MaxServos == 19         \* most servos in one call of move_multiple_servos

\* ------------------------------------------------------- protocol constants
FRAME_HEADER == 85
CMD_SERVO_MOVE == 3
HID_REPORT_LEN == 64
TEACH_STEP == 5
MAX_ANGLE == 180
DEFAULT_TIME_MS == 1000

\* ------------------------------------------------------------- python dicts
IntKey(n) == [t |-> "int", n |-> n]
StrKey(n) == [t |-> "str", n |-> n]

Has(d, key) == \E i \in 1..Len(d) : d[i].k = key

Get(d, key) == d[CHOOSE i \in 1..Len(d) : d[i].k = key].v

\* d[key] = val: an existing key keeps its place, a new key goes last
Put(d, key, val) ==
    IF Has(d, key)
    THEN [i \in 1..Len(d) |-> IF d[i].k = key THEN [k |-> key, v |-> val] ELSE d[i]]
    ELSE Append(d, [k |-> key, v |-> val])

\* {1: a1, ..., 6: a6} with int keys, from a tuple of six angles
IntDict(a) == [i \in 1..Len(a) |-> [k |-> IntKey(i), v |-> a[i]]]

\* ------------------------------------------------------------ the encoder
\* int(x / y) for y > 0: truncation toward zero
TruncDiv(x, y) == IF x >= 0 THEN x \div y ELSE -((-x) \div y)

\* the same with round() in place of int()
AngleToPosition_Rounded(angle) == ((200 * angle + 9) \div 18) + 500

\* int((angle / 180.0) * 2000) + 500
AngleToPosition(angle) == TruncDiv(angle * 2000, MAX_ANGLE) + 500

\* x & 0xFF and (x >> 8) & 0xFF
LoByte(x) == x % 256

HiByte(x) == (x \div 256) % 256

RECURSIVE ServoBytes(_)
ServoBytes(servos_data) ==
    IF servos_data = <<>> THEN <<>>
    ELSE <<Head(servos_data)[1], LoByte(Head(servos_data)[2]), HiByte(Head(servos_data)[2])>>
         \o ServoBytes(Tail(servos_data))

\* the same with the 16-bit fields high byte first
RECURSIVE ServoBytesBigEndian(_)
ServoBytesBigEndian(servos_data) ==
    IF servos_data = <<>> THEN <<>>
    ELSE <<Head(servos_data)[1], HiByte(Head(servos_data)[2]), LoByte(Head(servos_data)[2])>>
         \o ServoBytesBigEndian(Tail(servos_data))

build_servo_packet_BigEndian(servos_data) ==
    LET length == Len(servos_data) * 3 + 5
        time_ms == IF servos_data # <<>> THEN servos_data[1][3] ELSE DEFAULT_TIME_MS
    IN  <<FRAME_HEADER, FRAME_HEADER, length, CMD_SERVO_MOVE, Len(servos_data),
          HiByte(time_ms), LoByte(time_ms)>> \o ServoBytesBigEndian(servos_data)

build_servo_packet(servos_data) ==
    LET length == Len(servos_data) * 3 + 5
        time_ms == IF servos_data # <<>> THEN servos_data[1][3] ELSE DEFAULT_TIME_MS
    IN  <<FRAME_HEADER, FRAME_HEADER, length, CMD_SERVO_MOVE, Len(servos_data),
          LoByte(time_ms), HiByte(time_ms)>> \o ServoBytes(servos_data)

\* the 64-byte report send_packet hands to device.write
HidReport(packet) ==
    [j \in 1..HID_REPORT_LEN |->
        IF j = 1 THEN 0
        ELSE IF j - 1 <= Len(packet) THEN packet[j - 1] ELSE 0]

\* move_to_angles up to the call of send_packet
ServosData(angles, time_ms) ==
    [i \in 1..Len(angles) |-> <<angles[i].k.n, AngleToPosition(angles[i].v), time_ms>>]

\* send_packet without the sleep after the write
send_packet_NoSettle(ok) == IF ok THEN <<"write">> ELSE <<"write_raised">>

\* send_packet, step by step: device.write(hid_packet), then time.sleep(0.05)
\* and return True; a write that raises goes to the except branch at once
send_packet(ok) == IF ok THEN <<"write", "settle">> ELSE <<"write_raised">>

\* send_packet as the device sees it: the report device.write took, nothing if
\* it raised
Written(packet, ok) == IF ok THEN HidReport(packet) ELSE <<>>

\* one call of move_to_angles as the log keeps it: the angle-map and duration
\* passed, and whether device.write returned (ok) or raised
WriteRec(angles, time_ms, ok) == [angles |-> angles, time_ms |-> time_ms, ok |-> ok]

\* the frame that call builds, and the report send_packet writes to the device
Packet(w) == build_servo_packet(ServosData(w.angles, w.time_ms))

Report(w) == HidReport(Packet(w))

\* --------------------------------------------------------------- the store
\* json.dump: every key becomes a str; json.load folds the pairs of an object
\* into a dict, so of two equal keys the last value stays at the first place
RECURSIVE FoldPairs(_, _)
FoldPairs(pairs, d) ==
    IF pairs = <<>> THEN d
    ELSE FoldPairs(Tail(pairs), Put(d, Head(pairs).k, Head(pairs).v))

JsonDumpDict(d) == [i \in 1..Len(d) |-> [k |-> StrKey(d[i].k.n), v |-> d[i].v]]

JsonLoadDict(pairs) == FoldPairs(pairs, <<>>)

\* save_positions: the text written to button_positions.json
save_positions(store) == [name \in DOMAIN store |-> JsonDumpDict(store[name])]

\* load_positions: the mapping read back from it
load_positions(text) == [name \in DOMAIN text |-> JsonLoadDict(text[name])]

EmptyStore == [name \in {} |-> <<>>]

\* store[name] = d
StorePut(store, name, d) ==
    [n \in DOMAIN store \cup {name} |-> IF n = name THEN d ELSE store[n]]

\* self.home_position as __init__ sets it
DefaultHome == IntDict(<<80, 90, 180, 130, 90, 70>>)

\* ------------------------------------------------------------ the transport
\* device.write raises from write number drop on (0: it never raises)
WriteOk(i, drop) == drop = 0 \/ i < drop

\* move_to_angles: build the frame and send it; the result of send_packet is
\* the ok flag of the write, which no caller reads
move_to_angles(log, angles, time_ms, drop) ==
    Append(log, WriteRec(angles, time_ms, WriteOk(Len(log) + 1, drop)))

go_home(log, home, drop) == move_to_angles(log, home, DEFAULT_TIME_MS, drop)

\* ------------------------------------------------------------ choreography
HOVER_TIME_MS == 1000
PRESS_SERVO == 5
GRIPPER_SERVO == 1
DEFAULT_PRESS_DEPTH == 6
DEFAULT_PRESS_TIME == 500
STEP_DEFAULT_DEPTH == 10
STEP_DEFAULT_TIME == 500
DIAL_OPEN_TIME_MS == 1000
DIAL_CLOSE_TIME_MS == 500
DIAL_RELEASE_TIME_MS == 500
TEACH_MOVE_TIME_MS == 200

\* press_button from its first move on, for a position the store holds
press_moves(position, home, log, press_depth, press_time, return_home, drop) ==
    LET hovered == move_to_angles(log, position, HOVER_TIME_MS, drop)
    IN  IF ~Has(position, StrKey(PRESS_SERVO))
        THEN \* float(press_position.get('5')) with no key '5': TypeError
             [sent |-> hovered, result |-> "raised"]
        ELSE LET current_angle == Get(position, StrKey(PRESS_SERVO))
                 press_position ==
                     Put(position, StrKey(PRESS_SERVO), current_angle - press_depth)
                 pressed == move_to_angles(hovered, press_position, press_time, drop)
             IN  [sent |-> IF return_home THEN go_home(pressed, home, drop) ELSE pressed,
                  result |-> "True"]

press_button_HomeOnMiss(store, home, log, position_name, press_depth, press_time, return_home, drop) ==
    IF position_name \notin DOMAIN store
    THEN [sent |-> IF return_home THEN go_home(log, home, drop) ELSE log,
          result |-> "False"]
    ELSE press_moves(store[position_name], home, log, press_depth, press_time,
                     return_home, drop)

\* press_button: [sent: the log with its writes added, result]
press_button(store, home, log, position_name, press_depth, press_time, return_home, drop) ==
    IF position_name \notin DOMAIN store
    THEN [sent |-> log, result |-> "False"]
    ELSE press_moves(store[position_name], home, log, press_depth, press_time,
                     return_home, drop)

\* the press_button call one step of run_sequence makes
StepCall(step) ==
    IF step.kind = "str"
    THEN [name |-> step.button, depth |-> DEFAULT_PRESS_DEPTH,
          time |-> DEFAULT_PRESS_TIME, return_home |-> FALSE]
    ELSE [name |-> IF "button" \in DOMAIN step.d THEN step.d.button ELSE "None",
          depth |-> IF "depth" \in DOMAIN step.d THEN step.d.depth ELSE STEP_DEFAULT_DEPTH,
          time |-> IF "time" \in DOMAIN step.d THEN step.d.time ELSE STEP_DEFAULT_TIME,
          return_home |-> FALSE]

\* the loops of run_sequence over the steps still to run
RECURSIVE RunSteps(_, _, _, _, _, _)
RunSteps(store, home, steps, log, calls, drop) ==
    IF steps = <<>> THEN [sent |-> log, calls |-> calls, result |-> "None"]
    ELSE LET c == StepCall(Head(steps))
             r == press_button(store, home, log, c.name, c.depth, c.time,
                               c.return_home, drop)
             made == Append(calls, [name |-> c.name, depth |-> c.depth, time |-> c.time,
                                    return_home |-> c.return_home, result |-> r.result])
         IN  IF r.result = "raised"
             THEN [sent |-> r.sent, calls |-> made, result |-> "raised"]
             ELSE RunSteps(store, home, Tail(steps), r.sent, made, drop)

RECURSIVE Repeated(_, _)
Repeated(sequence, repeat) ==
    IF repeat <= 0 THEN <<>> ELSE sequence \o Repeated(sequence, repeat - 1)

run_sequence(store, home, sequence, repeat, return_home, drop) ==
    LET r == RunSteps(store, home, Repeated(sequence, repeat), <<>>, <<>>, drop)
    IN  IF r.result # "raised" /\ return_home
        THEN [r EXCEPT !.sent = go_home(r.sent, home, drop)]
        ELSE r

DialNames(dial_name) ==
    <<dial_name \o "_open", dial_name \o "_closed", dial_name \o "_turned">>

\* turn_dial from its first move on, for a dial whose three positions the
\* store holds
turn_moves(store, home, dial_name, turn_time, return_home, drop) ==
    LET position_open == DialNames(dial_name)[1]
        position_closed == DialNames(dial_name)[2]
        position_turned == DialNames(dial_name)[3]
        opened == move_to_angles(<<>>, store[position_open], DIAL_OPEN_TIME_MS, drop)
        closed == move_to_angles(opened, store[position_closed], DIAL_CLOSE_TIME_MS, drop)
        turned == move_to_angles(closed, store[position_turned], turn_time, drop)
    IN  IF ~Has(store[position_open], StrKey(GRIPPER_SERVO))
        THEN \* self.saved_positions[position_open]['1']: KeyError
             [sent |-> turned, result |-> "raised"]
        ELSE LET release_position ==
                     Put(store[position_turned], StrKey(GRIPPER_SERVO),
                         Get(store[position_open], StrKey(GRIPPER_SERVO)))
                 released == move_to_angles(turned, release_position,
                                            DIAL_RELEASE_TIME_MS, drop)
             IN  [sent |-> IF return_home THEN go_home(released, home, drop)
                           ELSE released,
                  result |-> "True"]

\* turn_dial with a check of the open position alone: the first lookup of a
\* missing position raises KeyError after the moves before it
turn_dial_FirstOnly(store, home, dial_name, turn_time, return_home, drop) ==
    LET names == DialNames(dial_name)
        opened == move_to_angles(<<>>, store[names[1]], DIAL_OPEN_TIME_MS, drop)
    IN  IF names[1] \notin DOMAIN store
        THEN [sent |-> <<>>, result |-> "False"]
        ELSE IF names[2] \notin DOMAIN store
        THEN [sent |-> opened, result |-> "raised"]
        ELSE IF names[3] \notin DOMAIN store
        THEN [sent |-> move_to_angles(opened, store[names[2]], DIAL_CLOSE_TIME_MS, drop),
              result |-> "raised"]
        ELSE turn_moves(store, home, dial_name, turn_time, return_home, drop)

turn_dial(store, home, dial_name, turn_time, return_home, drop) ==
    IF \E i \in 1..3 : DialNames(dial_name)[i] \notin DOMAIN store
    THEN [sent |-> <<>>, result |-> "False"]
    ELSE turn_moves(store, home, dial_name, turn_time, return_home, drop)

\* ------------------------------------------------------------- input lines
\* command in '123456' is Python's substring test
IsSubstring(cmd, text) ==
    \E i \in 0..(Len(text) - Len(cmd)) : SubSeq(text, i + 1, i + Len(cmd)) = cmd

DigitChars == <<"0", "1", "2", "3", "4", "5", "6", "7", "8", "9">>

DigitValue(c) == (CHOOSE i \in 1..10 : DigitChars[i] = c) - 1

\* int(command) for a non-empty string of digits
RECURSIVE ParseInt(_)
ParseInt(cmd) ==
    IF Len(cmd) = 1 THEN DigitValue(cmd[1])
    ELSE 10 * ParseInt(SubSeq(cmd, 1, Len(cmd) - 1)) + DigitValue(cmd[Len(cmd)])

SERVO_DIGITS == <<"1", "2", "3", "4", "5", "6">>

\* ------------------------------------------------------------------ inputs
\* button_positions.json as earlier sessions of teaching left it: every
\* angle-map is the default home moved by steps of 5 degrees
TaughtFile ==
    save_positions([a |-> IntDict(<<80, 90, 180, 130, 5, 70>>),
                    b |-> IntDict(<<80, 90, 180, 130, 90, 70>>),
                    d_open |-> IntDict(<<60, 90, 175, 130, 90, 70>>),
                    d_closed |-> IntDict(<<80, 90, 175, 130, 90, 70>>),
                    d_turned |-> IntDict(<<80, 90, 175, 130, 90, 100>>)])

\* the same before the dial's open position was taught
PartialFile ==
    save_positions([a |-> IntDict(<<80, 90, 180, 130, 5, 70>>),
                    d_closed |-> IntDict(<<80, 90, 175, 130, 90, 70>>),
                    d_turned |-> IntDict(<<80, 90, 175, 130, 90, 100>>)])

InitFiles == {save_positions(EmptyStore), PartialFile, TaughtFile}

PressNames == {"a", "b", "zz"}
\* press_button's own defaults, and a deeper, shorter press
PressSettings == {[depth |-> DEFAULT_PRESS_DEPTH, time |-> DEFAULT_PRESS_TIME],
                  [depth |-> STEP_DEFAULT_DEPTH, time |-> 250]}
TurnTimes == {DEFAULT_TIME_MS, 1500}
DialInputs == {"d"}
TeachNames == {"b", "d_turned"}
HomeInputs == {IntDict(<<178, 90, 180, 130, 3, 70>>)}
TeachInputs == {<<"q">>, <<"s">>, <<"1">>, <<"5">>, <<"+">>, <<"-">>,
                <<>>, <<"1", "2">>, <<"x">>}
StrStep(name) == [kind |-> "str", button |-> name]
DictStep(d) == [kind |-> "dict", d |-> d]
SequenceInputs ==
    {<<StrStep("a"), StrStep("b")>>,
     <<DictStep([button |-> "a", depth |-> 4, time |-> 300]), StrStep("zz"),
       DictStep([button |-> "b"])>>}
Drops == 0..MaxDrop

\* -------------------------------------------------------------------- state
VARIABLES
    saved_positions,   \* self.saved_positions
    positions_file,    \* the text of button_positions.json
    home_position,     \* self.home_position
    pc,                \* "idle": at the command prompt, "done": an operation has
                       \* returned, "teach": at the prompt of teach_position,
                       \* "dead": the process ended on an exception
    op, args, result,  \* the operation called last, its arguments, its result
    sent,              \* the device writes of the last step, in order
    calls,             \* the press_button calls run_sequence made, in order
    teach_name,        \* name, current_angles, selected_servo of teach_position
    current_angles,
    selected_servo,
    pending,           \* the names teach_dial_positions has still to teach
    taught,            \* commands and inputs counted against MaxTeach
    last_command,      \* the line teach_position read last
    store_before,      \* saved_positions and the file when the operation began
    ctl_pc,            \* the LeArmController's main: "idle" at its prompt, "done"
    ctl_sent,          \* its last call, as the log keeps calls
    ctl_packet,        \* the frame it built
    ctl_report         \* the report device.write took, <<>> if it raised

vars == <<saved_positions, positions_file, home_position, pc, op, args, result, sent,
          calls, teach_name, current_angles, selected_servo, pending, taught,
          last_command, store_before, ctl_pc, ctl_sent, ctl_packet, ctl_report>>

main_vars == <<saved_positions, positions_file, home_position, pc, op, args, result, sent,
               calls, teach_name, current_angles, selected_servo, pending, taught,
               last_command, store_before>>

ctl_vars == <<ctl_pc, ctl_sent, ctl_packet, ctl_report>>

store_vars == <<saved_positions, positions_file>>

teach_vars == <<teach_name, current_angles, selected_servo, pending>>

hist_vars == <<last_command, store_before>>

NoArgs == [none |-> TRUE]

\* no line read yet
NoCommand == <<"(none)">>

Init ==
    /\ positions_file \in InitFiles
    /\ saved_positions = load_positions(positions_file)
    /\ home_position = DefaultHome
    /\ pc = "idle"
    /\ op = "none" /\ args = NoArgs /\ result = "None"
    /\ sent = <<>> /\ calls = <<>>
    /\ teach_name = "" /\ current_angles = <<>> /\ selected_servo = 1 /\ pending = <<>>
    /\ taught = 0
    /\ last_command = NoCommand
    /\ store_before = <<saved_positions, positions_file>>
    /\ ctl_pc = "idle" /\ ctl_sent = <<>> /\ ctl_packet = <<>> /\ ctl_report = <<>>

Finish(r) == IF r = "raised" THEN "dead" ELSE "done"

\* press_button with press_position = position in place of position.copy():
\* the press angle is written into the stored position
PressButton_WritesBack ==
    /\ pc = "idle"
    /\ \E name \in PressNames, set \in PressSettings, ret \in BOOLEAN, drop \in Drops :
          LET r == press_button(saved_positions, home_position, <<>>, name, set.depth,
                                set.time, ret, drop)
          IN  /\ op' = "press_button"
              /\ args' = [name |-> name, depth |-> set.depth, time |-> set.time,
                           return_home |-> ret]
              /\ result' = r.result
              /\ sent' = r.sent
              /\ calls' = <<>>
              /\ pc' = Finish(r.result)
              /\ saved_positions' =
                    IF r.result = "True"
                    THEN StorePut(saved_positions, name, r.sent[2].angles)
                    ELSE saved_positions
    /\ UNCHANGED <<positions_file, home_position, teach_vars, taught, hist_vars, ctl_vars>>

PressButton ==
    /\ pc = "idle"
    /\ \E name \in PressNames, set \in PressSettings, ret \in BOOLEAN, drop \in Drops :
          LET r == press_button(saved_positions, home_position, <<>>, name, set.depth,
                                set.time, ret, drop)
          IN  /\ op' = "press_button"
              /\ args' = [name |-> name, depth |-> set.depth, time |-> set.time,
                           return_home |-> ret]
              /\ result' = r.result
              /\ sent' = r.sent
              /\ calls' = <<>>
              /\ pc' = Finish(r.result)
    /\ UNCHANGED <<store_vars, home_position, teach_vars, taught, hist_vars, ctl_vars>>

TurnDial ==
    /\ pc = "idle"
    /\ \E dial \in DialInputs, turn_time \in TurnTimes, ret \in BOOLEAN, drop \in Drops :
          LET r == turn_dial(saved_positions, home_position, dial, turn_time, ret, drop)
          IN  /\ op' = "turn_dial"
              /\ args' = [name |-> dial, time |-> turn_time, return_home |-> ret]
              /\ result' = r.result
              /\ sent' = r.sent
              /\ calls' = <<>>
              /\ pc' = Finish(r.result)
    /\ UNCHANGED <<store_vars, home_position, teach_vars, taught, hist_vars, ctl_vars>>

RunSequence ==
    /\ pc = "idle"
    /\ \E sequence \in SequenceInputs, repeat \in 0..MaxRepeat, ret \in BOOLEAN,
          drop \in Drops :
          LET r == run_sequence(saved_positions, home_position, sequence, repeat, ret, drop)
          IN  /\ op' = "run_sequence"
              /\ args' = [sequence |-> sequence, repeat |-> repeat, return_home |-> ret]
              /\ result' = r.result
              /\ sent' = r.sent
              /\ calls' = r.calls
              /\ pc' = Finish(r.result)
    /\ UNCHANGED <<store_vars, home_position, teach_vars, taught, hist_vars, ctl_vars>>

GoHome ==
    /\ pc = "idle"
    /\ \E drop \in Drops :
          /\ sent' = go_home(<<>>, home_position, drop)
          /\ result' = IF sent'[1].ok THEN "True" ELSE "False"
    /\ op' = "go_home" /\ args' = NoArgs /\ calls' = <<>> /\ pc' = "done"
    /\ UNCHANGED <<store_vars, home_position, teach_vars, taught, hist_vars, ctl_vars>>

SetHomePosition ==
    /\ pc = "idle"
    /\ \E angles \in HomeInputs :
          /\ home_position' = angles
          /\ args' = [angles |-> angles]
    /\ op' = "set_home_position" /\ result' = "None" /\ sent' = <<>> /\ calls' = <<>>
    /\ pc' = "done"
    /\ UNCHANGED <<store_vars, teach_vars, taught, hist_vars, ctl_vars>>

\* the operation has returned: main prompts for the next command, and the
\* record of the last operation is dropped
Prompt ==
    /\ pc = "done"
    /\ pc' = "idle"
    /\ op' = "none" /\ args' = NoArgs /\ result' = "None"
    /\ sent' = <<>> /\ calls' = <<>>
    /\ last_command' = NoCommand
    /\ store_before' = <<saved_positions, positions_file>>
    /\ UNCHANGED <<store_vars, home_position, teach_vars, taught, ctl_vars>>

\* quit, or the end of the process on an exception, and a new process:
\* __init__ loads the file and sets the default home
Restart ==
    /\ pc \in {"idle", "dead"}
    /\ saved_positions' = load_positions(positions_file)
    /\ home_position' = DefaultHome
    /\ pc' = "idle"
    /\ op' = "none" /\ args' = NoArgs /\ result' = "None"
    /\ sent' = <<>> /\ calls' = <<>>
    /\ teach_name' = "" /\ current_angles' = <<>> /\ selected_servo' = 1
    /\ pending' = <<>>
    /\ last_command' = NoCommand
    /\ store_before' = <<saved_positions', positions_file>>
    /\ UNCHANGED <<positions_file, taught, ctl_vars>>

\* --------------------------------------------------------------- teaching
\* the prompt formats current_angles[selected_servo]: KeyError without the key
PromptRaises(angles, servo) == ~Has(angles, IntKey(servo))

\* teach_position up to its first prompt
BeginTeach(name, todo, drop) ==
    /\ teach_name' = name
    /\ current_angles' = home_position
    /\ selected_servo' = 1
    /\ pending' = todo
    /\ sent' = move_to_angles(<<>>, home_position, DEFAULT_TIME_MS, drop)
    /\ result' = IF PromptRaises(home_position, 1) THEN "raised" ELSE "running"
    /\ pc' = IF PromptRaises(home_position, 1) THEN "dead" ELSE "teach"

TeachPosition ==
    /\ pc = "idle"
    /\ taught < MaxTeach
    /\ taught' = taught + 1
    /\ \E name \in TeachNames, drop \in Drops :
          /\ BeginTeach(name, <<>>, drop)
          /\ args' = [name |-> name]
    /\ op' = "teach_position" /\ calls' = <<>>
    /\ UNCHANGED <<store_vars, home_position, hist_vars, ctl_vars>>

TeachDialPositions ==
    /\ pc = "idle"
    /\ taught < MaxTeach
    /\ taught' = taught + 1
    /\ \E dial \in DialInputs, drop \in Drops :
          /\ BeginTeach(DialNames(dial)[1], Tail(DialNames(dial)), drop)
          /\ args' = [name |-> dial]
    /\ op' = "teach_dial_positions" /\ calls' = <<>>
    /\ UNCHANGED <<store_vars, home_position, hist_vars, ctl_vars>>

\* teach_position returns: its locals are gone
EndTeach ==
    /\ teach_name' = "" /\ current_angles' = <<>> /\ selected_servo' = 1
    /\ pending' = <<>>

\* command == 'q' under a teach_dial_positions that does not test what
\* teach_position returned
TeachQuit_NextStage(command) ==
    /\ command = <<"q">>
    /\ IF pending = <<>>
       THEN /\ result' = "False" /\ pc' = "done" /\ sent' = <<>>
            /\ EndTeach
       ELSE \E drop \in Drops : BeginTeach(Head(pending), Tail(pending), drop)
    /\ UNCHANGED <<store_vars, taught>>

\* command == 'q' that keeps the angles reached
TeachQuit_Saves(command) ==
    /\ command = <<"q">>
    /\ result' = "False" /\ pc' = "done" /\ sent' = <<>>
    /\ saved_positions' = StorePut(saved_positions, teach_name, current_angles)
    /\ positions_file' = save_positions(saved_positions')
    /\ EndTeach
    /\ UNCHANGED taught

\* command == 'q'
TeachQuit(command) ==
    /\ command = <<"q">>
    /\ result' = "False" /\ pc' = "done" /\ sent' = <<>>
    /\ EndTeach
    /\ UNCHANGED <<store_vars, taught>>

\* command == 's' without the call of save_positions
TeachSave_NoFlush(command) ==
    /\ command = <<"s">>
    /\ saved_positions' = StorePut(saved_positions, teach_name, current_angles)
    /\ positions_file' = positions_file
    /\ IF pending = <<>>
       THEN /\ result' = "True" /\ pc' = "done" /\ sent' = <<>>
            /\ EndTeach
       ELSE \E drop \in Drops : BeginTeach(Head(pending), Tail(pending), drop)
    /\ UNCHANGED taught

\* command == 's': the store is written and saved; teach_dial_positions goes on
\* to the next position, up to its first prompt
TeachSave(command) ==
    /\ command = <<"s">>
    /\ saved_positions' = StorePut(saved_positions, teach_name, current_angles)
    /\ positions_file' = save_positions(saved_positions')
    /\ IF pending = <<>>
       THEN /\ result' = "True" /\ pc' = "done" /\ sent' = <<>>
            /\ EndTeach
       ELSE \E drop \in Drops : BeginTeach(Head(pending), Tail(pending), drop)
    /\ UNCHANGED taught

\* command in '123456'
TeachSelect(command) ==
    /\ command \notin {<<"q">>, <<"s">>}
    /\ IsSubstring(command, SERVO_DIGITS)
    /\ IF command = <<>>
       THEN \* int(''): ValueError
            /\ result' = "raised" /\ pc' = "dead"
            /\ UNCHANGED selected_servo
       ELSE /\ selected_servo' = ParseInt(command)
            /\ result' = IF PromptRaises(current_angles, ParseInt(command))
                          THEN "raised" ELSE "running"
            /\ pc' = IF PromptRaises(current_angles, ParseInt(command))
                      THEN "dead" ELSE "teach"
    /\ sent' = <<>>
    /\ UNCHANGED <<store_vars, teach_name, current_angles, pending, taught>>

\* command == '+' and command == '-'
TeachAdjust(command) ==
    /\ command \in {<<"+">>, <<"-">>}
    /\ LET angle == Get(current_angles, IntKey(selected_servo))
           moves == IF command = <<"+">> THEN angle < MAX_ANGLE ELSE angle > 0
           delta == IF command = <<"+">> THEN TEACH_STEP ELSE -TEACH_STEP
       IN  IF moves
           THEN /\ taught < MaxTeach
                /\ taught' = taught + 1
                /\ current_angles' = Put(current_angles, IntKey(selected_servo), angle + delta)
                /\ \E drop \in Drops :
                      sent' = move_to_angles(<<>>, current_angles', TEACH_MOVE_TIME_MS, drop)
           ELSE /\ sent' = <<>>
                /\ UNCHANGED <<current_angles, taught>>
    /\ UNCHANGED <<store_vars, teach_name, selected_servo, pending, result, pc>>

\* any other line: the loop prompts again
TeachOther(command) ==
    /\ command \notin {<<"q">>, <<"s">>, <<"+">>, <<"-">>}
    /\ ~IsSubstring(command, SERVO_DIGITS)
    /\ sent' = <<>>
    /\ UNCHANGED <<store_vars, teach_vars, taught, result, pc>>

TeachInput ==
    /\ pc = "teach"
    /\ \E command \in TeachInputs :
          /\ last_command' = command
          /\ \/ TeachQuit(command)
             \/ TeachSave(command)
             \/ TeachSelect(command)
             \/ TeachAdjust(command)
             \/ TeachOther(command)
    /\ UNCHANGED <<home_position, op, args, calls, store_before, ctl_vars>>

\* ---------------------------------------- LeArmController (hiwonder_control)
CtlServos == 0..7
CtlAngles == (0 - AngleOver)..(MAX_ANGLE + AngleOver)
CtlTimes == {500, DEFAULT_TIME_MS, 70000}
\* dicts of servos 1..n at 90 degrees, around the most one report can carry
ManyServos == {IntDict([i \in 1..n |-> 90]) : n \in (MaxServos - 1)..MaxServos}

\* POSITIONS
Positions ==
    [home |-> IntDict(<<90, 90, 90, 90, 90, 90>>),
     rest |-> IntDict(<<90, 45, 135, 45, 90, 90>>),
     reach_forward |-> IntDict(<<90, 135, 45, 45, 90, 90>>),
     pick_up |-> IntDict(<<90, 135, 90, 90, 45, 0>>),
     button_press |-> IntDict(<<90, 100, 80, 70, 90, 45>>)]

\* move_servo: one (servo_id, position, time_ms) is encoded and sent
move_servo(servo_id, angle, time_ms, drop) ==
    <<WriteRec(<<[k |-> IntKey(servo_id), v |-> angle]>>, time_ms, WriteOk(1, drop))>>

\* move_multiple_servos
move_multiple_servos(servo_angles, time_ms, drop) ==
    <<WriteRec(servo_angles, time_ms, WriteOk(1, drop))>>

MoveServo ==
    /\ ctl_pc = "idle"
    /\ ctl_pc' = "done"
    /\ \E servo_id \in CtlServos, angle \in CtlAngles, time_ms \in CtlTimes, drop \in Drops :
          /\ ctl_sent' = move_servo(servo_id, angle, time_ms, drop)
          /\ ctl_packet' = Packet(ctl_sent'[1])
          /\ ctl_report' = Written(ctl_packet', ctl_sent'[1].ok)
    /\ UNCHANGED main_vars

MovePosition ==
    /\ ctl_pc = "idle"
    /\ ctl_pc' = "done"
    /\ \E name \in DOMAIN Positions, time_ms \in CtlTimes, drop \in Drops :
          /\ ctl_sent' = move_multiple_servos(Positions[name], time_ms, drop)
          /\ ctl_packet' = Packet(ctl_sent'[1])
          /\ ctl_report' = Written(ctl_packet', ctl_sent'[1].ok)
    /\ UNCHANGED main_vars

\* move_multiple_servos given a dict of many servos
MoveMany ==
    /\ ctl_pc = "idle"
    /\ ctl_pc' = "done"
    /\ \E servo_angles \in ManyServos, time_ms \in CtlTimes, drop \in Drops :
          /\ ctl_sent' = move_multiple_servos(servo_angles, time_ms, drop)
          /\ ctl_packet' = Packet(ctl_sent'[1])
          /\ ctl_report' = Written(ctl_packet', ctl_sent'[1].ok)
    /\ UNCHANGED main_vars

\* the command has returned: main prompts for the next one
CtlPrompt ==
    /\ ctl_pc = "done"
    /\ ctl_pc' = "idle"
    /\ ctl_sent' = <<>> /\ ctl_packet' = <<>> /\ ctl_report' = <<>>
    /\ UNCHANGED main_vars

\* ------------------------------------------------------------ specifications
\* the command-line program of auto_control.py, which never calls
\* set_home_position
Next ==
    \/ PressButton
    \/ TurnDial
    \/ RunSequence
    \/ GoHome
    \/ TeachPosition
    \/ TeachDialPositions
    \/ TeachInput
    \/ Prompt
    \/ Restart

Spec == Init /\ [][Next]_vars

\* the class ButtonPressAutomation used as a library, set_home_position included
NextHome ==
    \/ SetHomePosition
    \/ GoHome
    \/ TeachPosition
    \/ TeachDialPositions
    \/ TeachInput
    \/ Prompt
    \/ Restart

SpecHome == Init /\ [][NextHome]_vars

\* the class with every operation, in a session that starts on a taught file
InitAll == Init /\ positions_file = TaughtFile

NextAll == Next \/ SetHomePosition

SpecAll == InitAll /\ [][NextAll]_vars

\* the command-line program of hiwonder_control.py
InitCtl == Init /\ positions_file = save_positions(EmptyStore)

NextCtl == MoveServo \/ MovePosition \/ MoveMany \/ CtlPrompt

SpecCtl == InitCtl /\ [][NextCtl]_vars

\* ------------------------------------------------------------------ claims
Max(x, y) == IF x >= y THEN x ELSE y

Returned == pc \in {"done", "dead"}

\* the angle an angle-map gives servo n, under whichever key
AngleOfServo(d, n) == d[CHOOSE i \in 1..Len(d) : d[i].k.n = n].v

IsHomeMove(w) == w.angles = home_position /\ w.time_ms = DEFAULT_TIME_MS

StepNames(sequence) == {StepCall(sequence[i]).name : i \in 1..Len(sequence)}

DialHeld(dial_name) == \A i \in 1..3 : DialNames(dial_name)[i] \in DOMAIN saved_positions

\* C1: press_button on a name the store does not hold returns False, writes
\* nothing to the device (no hover, no press, no go_home) and leaves the store
\* and the file as they were, whatever depth, hold time and return_home are.
C1_PressMissingWritesNothing ==
    [][(pc = "idle" /\ op' = "press_button" /\ args'.name \notin DOMAIN saved_positions)
         => (/\ result' = "False"
             /\ sent' = <<>>
             /\ saved_positions' = saved_positions
             /\ positions_file' = positions_file)]_vars

C1_Witness ==
    /\ op = "press_button" /\ pc = "done"
    /\ args.name \notin DOMAIN saved_positions
    /\ args.return_home /\ args.depth = STEP_DEFAULT_DEPTH
    /\ DOMAIN saved_positions # {}
    /\ result = "False"

\* C2: turn_dial on a dial of which one or more of <dial>_open, <dial>_closed,
\* <dial>_turned is not in the store returns False before any move is written,
\* whichever of the three is missing.
C2_TurnIncompleteWritesNothing ==
    [][(pc = "idle" /\ op' = "turn_dial" /\ ~DialHeld(args'.name))
         => (result' = "False" /\ sent' = <<>>)]_vars

C2_Witness ==
    /\ op = "turn_dial" /\ pc = "done" /\ result = "False"
    /\ DialNames(args.name)[1] \in DOMAIN saved_positions
    /\ DialNames(args.name)[2] \in DOMAIN saved_positions
    /\ DialNames(args.name)[3] \notin DOMAIN saved_positions

C4_DialMovesInOrder ==
    (op = "turn_dial" /\ Returned /\ DialHeld(args.name))
    => /\ result = "True"
       /\ Len(sent) = 4 + (IF args.return_home THEN 1 ELSE 0)
       /\ sent[1].angles = saved_positions[DialNames(args.name)[1]]
       /\ sent[1].time_ms = DIAL_OPEN_TIME_MS
       /\ sent[2].angles = saved_positions[DialNames(args.name)[2]]
       /\ sent[2].time_ms = DIAL_CLOSE_TIME_MS
       /\ sent[3].angles = saved_positions[DialNames(args.name)[3]]
       /\ sent[3].time_ms = args.time
       /\ sent[4].time_ms = DIAL_RELEASE_TIME_MS
       /\ args.return_home => IsHomeMove(sent[5])

\* C5: the release move of turn_dial carries exactly the servos of
\* <dial>_turned, each once and in the same order, every angle that of
\* <dial>_turned except the gripper servo (1), whose angle is the gripper angle
\* of <dial>_open.
C5_ReleaseIsTurnedWithOpenGripper ==
    (op = "turn_dial" /\ Returned /\ result = "True")
    => LET turned == saved_positions[DialNames(args.name)[3]]
           opened == saved_positions[DialNames(args.name)[1]]
           release == ServosData(sent[4].angles, sent[4].time_ms)
       IN  /\ Len(release) = Len(turned)
           /\ \A i \in 1..Len(release) :
                 /\ release[i][1] = turned[i].k.n
                 /\ release[i][2] =
                       AngleToPosition(IF turned[i].k.n = GRIPPER_SERVO
                                       THEN AngleOfServo(opened, GRIPPER_SERVO)
                                       ELSE turned[i].v)

\* C6: for every stored position and every depth, press_button ends without
\* an error and the angle its press move gives the pressing servo (5) is
\* max(0, hover angle - depth), never negative.
C6_PressAngleClamped ==
    (op = "press_button" /\ Returned /\ args.name \in DOMAIN saved_positions)
    => /\ result = "True"
       /\ AngleOfServo(sent[2].angles, PRESS_SERVO)
            = Max(0, AngleOfServo(sent[1].angles, PRESS_SERVO) - args.depth)
       /\ AngleOfServo(sent[2].angles, PRESS_SERVO) >= 0

\* C7: press_button on a stored name writes the stored angle-map for 1000 ms,
\* then for hold_ms an angle-map that differs from it in servo 5 alone, then
\* go_home if and only if return_home is true.
C7_PressHoverThenPress ==
    (op = "press_button" /\ Returned /\ args.name \in DOMAIN saved_positions)
    => /\ Len(sent) = 2 + (IF args.return_home THEN 1 ELSE 0)
       /\ sent[1].angles = saved_positions[args.name]
       /\ sent[1].time_ms = HOVER_TIME_MS
       /\ sent[2].time_ms = args.time
       /\ Len(sent[2].angles) = Len(sent[1].angles)
       /\ \A i \in 1..Len(sent[1].angles) :
             /\ sent[2].angles[i].k = sent[1].angles[i].k
             /\ sent[1].angles[i].k.n # PRESS_SERVO
                  => sent[2].angles[i].v = sent[1].angles[i].v
       /\ args.return_home => IsHomeMove(sent[3])

\* the fields of a frame: the count, the duration, the k-th servo id and position
FrameCount(p) == p[5]

FrameDuration(p) == p[6] + 256 * p[7]

FrameServo(p, k) == p[5 + 3 * k]

FrameRaw(p, k) == p[6 + 3 * k] + 256 * p[7 + 3 * k]

\* the moves of the controller's last command, as build_servo_packet got them
CtlMoves == ServosData(ctl_sent[1].angles, ctl_sent[1].time_ms)

\* C8: for a list of N moves build_servo_packet gives 0x55 0x55, N*3 + 5, 0x03,
\* N, the first move's duration as a 16-bit little-endian field, then for each
\* move in list order its servo id and its position as a 16-bit little-endian
\* field; servo 1 at 90 degrees for 1000 ms gives 55 55 08 03 01 E8 03 01 DC 05.
C8_FrameLayout ==
    ctl_pc = "done"
    => LET n == Len(CtlMoves)
       IN  /\ Len(ctl_packet) = 7 + 3 * n
           /\ ctl_packet[1] = 85 /\ ctl_packet[2] = 85
           /\ ctl_packet[3] = n * 3 + 5
           /\ ctl_packet[4] = 3
           /\ FrameCount(ctl_packet) = n
           /\ ctl_packet[6] \in 0..255 /\ ctl_packet[7] \in 0..255
           /\ FrameDuration(ctl_packet) = CtlMoves[1][3] % 65536
           /\ \A k \in 1..n :
                 /\ FrameServo(ctl_packet, k) = CtlMoves[k][1]
                 /\ ctl_packet[6 + 3 * k] \in 0..255
                 /\ ctl_packet[7 + 3 * k] \in 0..255
                 /\ FrameRaw(ctl_packet, k) = CtlMoves[k][2] % 65536
           /\ (ctl_sent[1].angles = <<[k |-> IntKey(1), v |-> 90]>>
                 /\ ctl_sent[1].time_ms = 1000)
                => ctl_packet = <<85, 85, 8, 3, 1, 232, 3, 1, 220, 5>>

C8_Witness ==
    /\ ctl_pc = "done"
    /\ ctl_sent[1].angles = <<[k |-> IntKey(1), v |-> 90]>>
    /\ ctl_sent[1].time_ms = 1000
    /\ ctl_packet = <<85, 85, 8, 3, 1, 232, 3, 1, 220, 5>>

\* round(angle / 180 * 2000): the quotient is a multiple of 1/9, never a tie
RoundedRaw(angle) == ((200 * angle + 9) \div 18) + 500

\* C9 as claimed: for every integer angle in 0..180 the position in the frame
\* is round(angle / 180 * 2000) + 500, the nearest integer.
C9_RawIsRounded ==
    ctl_pc = "done"
    => \A k \in 1..Len(ctl_sent[1].angles) :
         ctl_sent[1].angles[k].v \in 0..MAX_ANGLE
         => FrameRaw(ctl_packet, k) = RoundedRaw(ctl_sent[1].angles[k].v)

\* C9 as amended: for every integer angle in 0..180 the position in the frame
\* is angle / 180 * 2000 cut to its integer part, plus 500 (5 degrees gives
\* 555, not 556); it lies in 500..2500, with 0 -> 500, 90 -> 1500, 180 -> 2500.
C9_RawIsTruncated ==
    ctl_pc = "done"
    => \A k \in 1..Len(ctl_sent[1].angles) :
         LET angle == ctl_sent[1].angles[k].v
             raw == FrameRaw(ctl_packet, k)
         IN  angle \in 0..MAX_ANGLE
             => /\ raw = ((angle * 2000) \div 180) + 500
                /\ raw \in 500..2500
                /\ angle = 0 => raw = 500
                /\ angle = 90 => raw = 1500
                /\ angle = 180 => raw = 2500

C9_Witness ==
    /\ ctl_pc = "done"
    /\ ctl_sent[1].angles[1].v = 5
    /\ FrameRaw(ctl_packet, 1) = 555

\* C10: no frame with a servo id outside 1..6 or a position outside 500..2500
\* is written to the device: such a move is refused with an error.
C10_NoInvalidFrameWritten ==
    (ctl_pc = "done" /\ ctl_sent[1].ok)
    => \A k \in 1..FrameCount(ctl_packet) :
         /\ FrameServo(ctl_packet, k) \in 1..6
         /\ FrameRaw(ctl_packet, k) \in 500..2500

\* C11: send_packet refuses a frame longer than 63 bytes: it reports failure
\* and the device takes no report, so no report carries a cut-off frame; a
\* frame of at most 63 bytes goes out as a report of 64 bytes, byte 0 = 0x00,
\* the frame from byte 1 on and zeros after it.
C11_FrameTooLargeRefused ==
    ctl_pc = "done"
    => IF Len(ctl_packet) > HID_REPORT_LEN - 1
       THEN ~ctl_sent[1].ok /\ ctl_report = <<>>
       ELSE ctl_sent[1].ok
            => /\ Len(ctl_report) = HID_REPORT_LEN
               /\ ctl_report[1] = 0
               /\ \A j \in 1..Len(ctl_packet) : ctl_report[j + 1] = ctl_packet[j]
               /\ \A j \in (Len(ctl_packet) + 2)..HID_REPORT_LEN : ctl_report[j] = 0

\* what the calls of send_packet in a log did, in order
RECURSIVE Events(_)
Events(log) ==
    IF log = <<>> THEN <<>> ELSE send_packet(Head(log).ok) \o Events(Tail(log))

C13_TransportErrorAborts ==
    /\ (op \in {"turn_dial", "run_sequence"} /\ Returned)
         => \A i \in 1..Len(sent) :
              ~sent[i].ok => (i = Len(sent) /\ result = "False")
    /\ (op = "teach_dial_positions" /\ \E i \in 1..Len(sent) : ~sent[i].ok)
         => (Returned /\ result = "False")

\* C14: the file always holds the dump of the store in memory, and a commit
\* ('s') in teaching name puts the angle-map taught under name both in memory
\* and in the file, in place of any earlier entry, and leaves every other name
\* as it was.
C14_StoreFlushedOnCommit ==
    /\ [](positions_file = save_positions(saved_positions))
    /\ [][(pc = "teach" /\ last_command' = <<"s">>)
            => /\ DOMAIN saved_positions' = DOMAIN saved_positions \cup {teach_name}
               /\ DOMAIN positions_file' = DOMAIN saved_positions'
               /\ saved_positions'[teach_name] = current_angles
               /\ positions_file'[teach_name] = JsonDumpDict(current_angles)
               /\ \A n \in DOMAIN saved_positions \ {teach_name} :
                     /\ saved_positions'[n] = saved_positions[n]
                     /\ positions_file'[n] = positions_file[n]]_vars

C14_Witness ==
    /\ op = "teach_position" /\ pc = "done" /\ result = "True"
    /\ last_command = <<"s">>
    /\ args.name \in DOMAIN store_before[2]
    /\ positions_file[args.name] # store_before[2][args.name]
    /\ positions_file[args.name] = JsonDumpDict(saved_positions[args.name])

\* C15: 'q' ends teach_position with False and writes neither the store in
\* memory nor the file, and no input before it does: while teach_position runs
\* and after its abort both are what they were when it was called.
C15_TeachAbortPersistsNothing ==
    /\ [][(pc = "teach" /\ last_command' = <<"q">>)
            => (result' = "False" /\ pc' = "done" /\ UNCHANGED store_vars)]_vars
    /\ []((op = "teach_position" /\ (pc = "teach" \/ last_command = <<"q">>))
            => <<saved_positions, positions_file>> = store_before)

C15_Witness ==
    /\ op = "teach_position" /\ pc = "done" /\ result = "False"
    /\ last_command = <<"q">>
    /\ taught = MaxTeach
    /\ DOMAIN saved_positions # {}
    /\ <<saved_positions, positions_file>> = store_before

AnglesWithin(d) == \A i \in 1..Len(d) : d[i].v \in 0..MAX_ANGLE

\* C16: whatever home position within 0..180 teaching starts from and
\* whatever lines are typed, every angle of current_angles, every angle of a
\* move teach_position sends and every angle it commits lies in 0..180.
C16_TeachAnglesClamped ==
    AnglesWithin(home_position)
    => /\ AnglesWithin(current_angles)
       /\ op \in {"teach_position", "teach_dial_positions"}
            => \A i \in 1..Len(sent) : AnglesWithin(sent[i].angles)
       /\ \A name \in DOMAIN saved_positions : AnglesWithin(saved_positions[name])

\* C17: teach_dial_positions teaches <dial>_open, then <dial>_closed, then
\* <dial>_turned: a stage begins only after a commit of the stage before it,
\* whose position is then in the store and in the file; a 'q' in any stage ends
\* the operation with False, starts no further stage and leaves the store and
\* the file, with the positions the earlier stages committed, as they are.
C17_DialTaughtInOrder ==
    /\ []((op = "teach_dial_positions" /\ pc = "teach")
            => \E k \in 1..3 :
                 /\ teach_name = DialNames(args.name)[k]
                 /\ pending = SubSeq(DialNames(args.name), k + 1, 3)
                 /\ \A j \in 1..(k - 1) :
                       /\ DialNames(args.name)[j] \in DOMAIN saved_positions
                       /\ DialNames(args.name)[j] \in DOMAIN positions_file)
    /\ [][(pc = "idle" /\ op' = "teach_dial_positions")
            => teach_name' = DialNames(args'.name)[1]]_vars
    /\ [][(op = "teach_dial_positions" /\ pc = "teach" /\ teach_name' # teach_name
             /\ pc' = "teach")
            => (last_command' = <<"s">> /\ teach_name' = Head(pending))]_vars
    /\ [][(op = "teach_dial_positions" /\ pc = "teach" /\ last_command' = <<"q">>)
            => (/\ pc' = "done" /\ result' = "False"
                /\ sent' = <<>> /\ teach_name' = ""
                /\ UNCHANGED store_vars)]_vars

C17_Witness ==
    /\ op = "teach_dial_positions" /\ pc = "done" /\ result = "False"
    /\ last_command = <<"q">>
    /\ DialNames(args.name)[1] \notin DOMAIN store_before[2]
    /\ DialNames(args.name)[1] \in DOMAIN saved_positions
    /\ DialNames(args.name)[1] \in DOMAIN positions_file
    /\ DialNames(args.name)[2] \notin DOMAIN positions_file

\* C18: after a teach_dial_positions that failed, the file holds under
\* <dial>_open, <dial>_closed and <dial>_turned what it held when the operation
\* was called: nothing taught during the call is persisted.
C18_DialTeachAtomic ==
    (op = "teach_dial_positions" /\ pc = "done" /\ result = "False")
    => \A i \in 1..3 :
         LET n == DialNames(args.name)[i]
         IN  /\ n \in DOMAIN positions_file <=> n \in DOMAIN store_before[2]
             /\ n \in DOMAIN positions_file
                  => positions_file[n] = store_before[2][n]

\* C19: run_sequence presses a step given as a bare name with depth 10 and
\* hold time 500 ms, as it presses a record step without depth and time; a
\* record step with depth and time is pressed with those.
C19_StepDefaults ==
    (op = "run_sequence" /\ Returned)
    => \A i \in 1..Len(calls) :
         LET step == Repeated(args.sequence, args.repeat)[i]
         IN  IF step.kind = "str"
             THEN calls[i].depth = STEP_DEFAULT_DEPTH /\ calls[i].time = STEP_DEFAULT_TIME
             ELSE /\ calls[i].depth = IF "depth" \in DOMAIN step.d THEN step.d.depth
                                      ELSE STEP_DEFAULT_DEPTH
                  /\ calls[i].time = IF "time" \in DOMAIN step.d THEN step.d.time
                                     ELSE STEP_DEFAULT_TIME

\* C20: in run_sequence a step whose name the store does not hold makes its
\* press_button return False with no move written, and every other step, in
\* every repetition, is still pressed in order (hover, then press), and the
\* one go_home follows if return_home is true.
C20_UnknownStepFailsAlone ==
    (op = "run_sequence" /\ Returned
       /\ ~(StepNames(args.sequence) \subseteq DOMAIN saved_positions))
    => LET all == Repeated(args.sequence, args.repeat)
           known == {i \in 1..Len(all) : StepCall(all[i]).name \in DOMAIN saved_positions}
           rank(i) == Cardinality({j \in known : j <= i})
           homes == IF args.return_home THEN 1 ELSE 0
       IN  /\ Len(calls) = Len(all)
           /\ \A i \in 1..Len(calls) :
                 /\ calls[i].name = StepCall(all[i]).name
                 /\ calls[i].result = IF i \in known THEN "True" ELSE "False"
           /\ Len(sent) = 2 * Cardinality(known) + homes
           /\ \A i \in known :
                 /\ 2 * rank(i) <= Len(sent)
                 /\ sent[2 * rank(i) - 1].angles = saved_positions[calls[i].name]
                 /\ sent[2 * rank(i)].time_ms = calls[i].time
           /\ args.return_home => IsHomeMove(sent[Len(sent)])

\* C21: loading the file save_positions has just written gives back the store
\* that was saved: the same names, and under each name the same servo keys
\* with the same angles.
C21_SaveLoadRoundTrip ==
    /\ positions_file = save_positions(saved_positions)
    /\ load_positions(save_positions(saved_positions)) = saved_positions

\* C22: the frame of every move list gives back the list's servo count, its
\* duration and every raw position, also for a duration of 65536 ms or more,
\* and the same moves with another duration give another frame.
C22_EncodingDecodable ==
    ctl_pc = "done"
    => /\ FrameCount(ctl_packet) = Len(CtlMoves)
       /\ FrameDuration(ctl_packet) = ctl_sent[1].time_ms
       /\ \A k \in 1..Len(CtlMoves) : FrameRaw(ctl_packet, k) = CtlMoves[k][2]
       /\ \A t \in CtlTimes \cup {u % 65536 : u \in CtlTimes} :
             t # ctl_sent[1].time_ms
             => build_servo_packet(ServosData(ctl_sent[1].angles, t)) # ctl_packet

\* the same writes: frame for frame, with the same outcome of each write
SameWrites(x, y) ==
    /\ Len(x) = Len(y)
    /\ \A i \in 1..Len(x) : Packet(x[i]) = Packet(y[i]) /\ x[i].ok = y[i].ok

\* C23: press_button on a name the store holds, and turn_dial on a dial whose
\* three positions it holds, complete with their hover and press moves and
\* their four moves, and do what they would do on the store a new session
\* loads from the file, also when the positions were taught in this session.
C23_TaughtUsableInSession ==
    /\ (op = "press_button" /\ Returned /\ args.name \in DOMAIN saved_positions)
         => /\ result = "True"
            /\ Len(sent) >= 2
            /\ \E drop \in Drops :
                  LET r == press_button(load_positions(positions_file), home_position,
                                        <<>>, args.name, args.depth, args.time,
                                        args.return_home, drop)
                  IN  r.result = result /\ SameWrites(r.sent, sent)
    /\ (op = "turn_dial" /\ Returned /\ DialHeld(args.name))
         => /\ result = "True"
            /\ Len(sent) >= 4
            /\ \E drop \in Drops :
                  LET r == turn_dial(load_positions(positions_file), home_position,
                                     args.name, args.time, args.return_home, drop)
                  IN  r.result = result /\ SameWrites(r.sent, sent)

MotionOps == {"press_button", "turn_dial", "run_sequence", "go_home"}

TeachOps == {"teach_position", "teach_dial_positions"}

\* C24: press_button, turn_dial, run_sequence and go_home change neither the
\* store in memory, nor the file, nor home_position; teaching, committed or
\* aborted, does not change home_position; home_position changes only in
\* set_home_position (and is the default again in a new process), and
\* set_home_position writes nothing to the store or the file.
C24_MotionWritesNoState ==
    /\ [][(pc = "idle" /\ op' \in MotionOps)
            => UNCHANGED <<saved_positions, positions_file, home_position>>]_vars
    /\ [][((pc = "idle" /\ op' \in TeachOps) \/ pc = "teach")
            => home_position' = home_position]_vars
    /\ [][home_position' # home_position
            => \/ op' = "set_home_position"
               \/ op' = "none" /\ home_position' = DefaultHome]_vars
    /\ [][(pc = "idle" /\ op' = "set_home_position") => UNCHANGED store_vars]_vars

C24_Witness ==
    /\ op = "press_button" /\ pc = "done" /\ result = "True"
    /\ args.return_home
    /\ home_position # DefaultHome
    /\ sent[2].angles # saved_positions[args.name]
    /\ <<saved_positions, positions_file>> = store_before

\* the lines the teach loop knows
TeachCommands ==
    {<<"q">>, <<"s">>, <<"+">>, <<"-">>} \cup {<<SERVO_DIGITS[i]>> : i \in 1..6}

\* C25: whatever lines are typed at the teach prompt, the selected servo is
\* one of 1..6, no exception ends the loop, the loop ends only on 's' (True)
\* or 'q' (False), and a line other than a digit 1..6, '+', '-', 's', 'q'
\* changes nothing.
C25_TeachLoopWellFormed ==
    /\ [](selected_servo \in 1..6)
    /\ [](op \in TeachOps => (pc # "dead" /\ result # "raised"))
    /\ []((op \in TeachOps /\ pc = "done")
            => \/ last_command = <<"s">> /\ result = "True"
               \/ last_command = <<"q">> /\ result = "False")
    /\ [][(pc = "teach" /\ last_command' \notin TeachCommands)
            => UNCHANGED <<store_vars, teach_vars, pc, result>>]_vars
====
